---- MODULE Spec2Model ----
(***************************************************************************)
(* Model of demo-ls: the parallel diagnostics pass.                        *)
(*   src/src/pool.rs         Pool (worker threads over a shared channel)   *)
(*   src/src/diagnostics.rs  DiagnosticController, discovery, batches,     *)
(*                           closure traversal, diagnostics printing       *)
(*   src/src/lib.rs          load_scarb_project,                           *)
(*                           calculate_diagnostics_for_all_files           *)
(*   src/src/main.rs         main                                          *)
(* The compilation database (salsa queries of cairo-lang) is external: it  *)
(* is a record of query results over the files of the project, chosen in   *)
(* the initial state; loading the project sets its crates, one at a time.  *)
(***************************************************************************)
EXTENDS Integers, Sequences, FiniteSets, TLC

\* ---------------------------------------------------------------- bounds
MaxFiles == 3          \* file ids of the databases of the pass: 1..MaxFiles
MaxModules == 4        \* module ids of the databases of the pass
MaxHost == 2           \* largest value of available_parallelism()
MaxBudget == 2         \* largest threads_limit
MaxClosureFiles == 3   \* file ids of the databases of the closure runs
MaxClosureModules == 2 \* module ids of the databases of the closure runs
MaxDiscoveryFiles == 3 \* file ids of the databases of the discovery runs
MaxDiscoveryModules == 4 \* module ids of the databases of the discovery runs
MaxUnavailableModules == 2 \* module and file ids of the availability runs
MaxPoolFiles == 1      \* on-disk files of the databases of the pool runs
MaxPoolHost == 2       \* largest available_parallelism() of the pool runs
MaxPoolBudget == 5     \* largest max_threads of the pool runs
MaxPartitionFiles == 4 \* file ids of the databases of the partition runs
MaxPartitionWorkers == 4 \* largest parallelism() of the partition runs
MaxUnits == 2          \* compilation units of the metadata of the load runs
MaxComponents == 2     \* components of one compilation unit of the load runs
MaxComponentIds == 2   \* component ids of the metadata of the load runs

\* pool.rs: const DEFAULT_PARALLELISM
DEFAULT_PARALLELISM == 4

\* ------------------------------------------------------- generic helpers
Range(s) == {s[i] : i \in DOMAIN s}

Min(a, b) == IF a <= b THEN a ELSE b

\* All enumerations of a finite set without repetition: the orders in
\* which a HashSet may hand out its elements.
Perms(S) == {s \in [1..Cardinality(S) -> S] : Range(s) = S}

\* The elements of a set of ids as the slice a database query returns.
RECURSIVE SortedSeq(_)
SortedSeq(S) ==
    IF S = {} THEN <<>>
    ELSE LET m == CHOOSE x \in S : \A y \in S : x <= y
         IN <<m>> \o SortedSeq(S \ {m})

\* Result<T, E> of a database query.
Ok(v) == [ok |-> TRUE, val |-> v]
Err(v) == [ok |-> FALSE, val |-> v]

\* --------------------------------------------------- diagnostics.rs: pure
\* Iterator::skip(k)
Skip(s, k) == SubSeq(s, k + 1, Len(s))

\* Iterator::step_by(n): the first element, then every n-th one.
StepBy(s, n) == [i \in 1..((Len(s) + n - 1) \div n) |-> s[(i - 1) * n + 1]]

\* mutant: skip(offset) instead of skip(offset - 1)
batchesSkipOffByOne(input, n) ==
    [offset \in 1..n |-> StepBy(Skip(input, offset), n)]

\* mutant: step_by(n) without the skip, every batch starts at the first file
batchesNoSkip(input, n) ==
    [offset \in 1..n |-> StepBy(input, n)]

\* mutant: skip(offset - 1) without the step_by
batchesSkipOnly(input, n) ==
    [offset \in 1..n |-> Skip(input, offset - 1)]

\* mutant: the offsets are taken from n down to 1
batchesReversed(input, n) ==
    [offset \in 1..n |-> StepBy(Skip(input, n - offset), n)]

\* fn batches(input, n)
batches(input, n) ==
    [offset \in 1..n |-> StepBy(Skip(input, offset - 1), n)]

\* mutant: the main file is scheduled whatever its long id
ScheduledAnyFile(d, r) == r.ok

\* `if let Ok(file) = db.module_main_file(..)` and
\* `matches!(file.lookup_intern(db), FileLongId::OnDisk(_))`
Scheduled(d, r) == r.ok /\ r.val \in d.on_disk

\* `for module_id in db.crate_modules(crate_id).iter()`: result.insert(file)
\* for the modules that pass the two tests
RECURSIVE InsertMainFiles(_, _, _)
InsertMainFiles(d, module_ids, result) ==
    IF module_ids = <<>> THEN result
    ELSE LET r == d.module_main_file[Head(module_ids)]
         IN InsertMainFiles(d, Tail(module_ids),
                            IF Scheduled(d, r) THEN result \cup {r.val} ELSE result)

\* `for crate_id in db.crates()`
RECURSIVE InsertCrates(_, _, _)
InsertCrates(d, crate_ids, result) ==
    IF crate_ids = <<>> THEN result
    ELSE InsertCrates(d, Tail(crate_ids),
                      InsertMainFiles(d, SortedSeq(d.crate_modules[Head(crate_ids)]), result))

\* fn find_all_files_from_all_crates: the HashSet `result` after the loops
find_all_files_from_all_crates(d) == InsertCrates(d, SortedSeq(d.crates), {})

\* fn print_diags: the entries written to the error stream, empty ones
\* suppressed.  An entry is its formatted text.
print_diags(diags) == SelectSeq(diags, LAMBDA entry : entry /= "")

\* ------------------------------------------------------------- databases
\* A database is the table of the results of the queries the pass makes:
\*   crates, crate_modules           db.crates(), db.crate_modules(c)
\*   module_main_file[m]             Result<FileId>
\*   on_disk                         files whose long id is FileLongId::OnDisk
\*   file_modules[f]                 Result<set of modules declared by f>
\*   module_files[m]                 Result<set of files backing m>
\*   semantic[m], lowering[m]        Result<formatted entries>
\*   syntax[f]                       formatted entries
\*   panics                          files whose file_modules query panics
Database(fs, ms, cr, cm, mmf, od, fm, mf, sem, low, syn) ==
    [files |-> fs, modules |-> ms, crates |-> cr, crate_modules |-> cm,
     module_main_file |-> mmf, on_disk |-> od,
     file_modules |-> fm, module_files |-> mf,
     semantic |-> sem, lowering |-> low, syntax |-> syn, panics |-> {}]

\* The diagnostics of a database, by profile:
\*   clean  nothing has diagnostics
\*   noisy  every module and every file has diagnostics
\*   mixed  the diagnostics of odd modules are unavailable and odd files
\*          have none; even modules and even files have diagnostics
\* The lowering diagnostics have an entry whose formatted text is empty.
Semantic(profile, m) ==
    CASE profile = "clean" -> Ok(<<>>)
      [] profile = "noisy" -> Ok(<<"semantic">>)
      [] profile = "mixed" -> IF m % 2 = 1 THEN Err(<<>>) ELSE Ok(<<"semantic">>)

Lowering(profile, m) ==
    CASE profile = "clean" -> Ok(<<>>)
      [] profile = "noisy" -> Ok(<<"", "lowering">>)
      [] profile = "mixed" -> IF m % 2 = 1 THEN Err(<<>>) ELSE Ok(<<"", "lowering">>)

Syntax(profile, f) ==
    CASE profile = "clean" -> <<>>
      [] profile = "noisy" -> <<"syntax">>
      [] profile = "mixed" -> IF f % 2 = 1 THEN <<>> ELSE <<"syntax">>

\* The databases of the pass.  The files of on_disk are on disk, the others
\* are generated.  Module m has main file m when that file exists and no main
\* file otherwise.  Odd modules are in crate 1, even ones in crate 2.
\*   flat: no file declares a module, and nothing has diagnostics
\*   tree: file f declares module f, whose files are f and the last file,
\*         and everything has diagnostics
\* `failing` (0: none) is the file (flat) or the module (tree) whose
\* file_modules or module_files query fails.
PassDatabase(on_disk, shape, failing) ==
    LET fs == 1..MaxFiles
        ms == 1..MaxModules
        profile == IF shape = "flat" THEN "clean" ELSE "noisy"
    IN Database(fs, ms, {1, 2},
        [c \in {1, 2} |-> {m \in ms : m % 2 = c % 2}],
        [m \in ms |-> IF m \in fs THEN Ok(m) ELSE Err(0)],
        on_disk,
        [f \in fs |->
            IF shape = "flat"
            THEN (IF f = failing THEN Err({}) ELSE Ok({}))
            ELSE Ok({f} \cap ms)],
        [m \in ms |->
            IF shape = "flat" THEN Ok({})
            ELSE IF m = failing THEN Err({})
            ELSE Ok(({m} \cap fs) \cup {MaxFiles})],
        [m \in ms |-> Semantic(profile, m)],
        [m \in ms |-> Lowering(profile, m)],
        [f \in fs |-> Syntax(profile, f)])

\* Files 1..R on disk, for every R, one of them or none failing
PassDatabases ==
    UNION {{PassDatabase(1..R, shape, failing) :
                shape \in {"flat", "tree"}, failing \in 0..R} : R \in 0..MaxFiles}

\* Every set of on-disk files, nothing declared, nothing failing
FlatDatabases == {PassDatabase(on_disk, "flat", 0) : on_disk \in SUBSET (1..MaxFiles)}

\* The databases of the availability runs: file 1, on disk, declares every
\* module; the files of module 1 are files 1 and 2, file 1 is the file of
\* the other modules; each diagnostics query of each module is available or
\* not, and every file has a syntax diagnostic.
UnavailableDatabases ==
    LET fs == 1..MaxUnavailableModules
        ms == 1..MaxUnavailableModules
    IN {Database(fs, ms, {1}, [c \in {1} |-> ms], [m \in ms |-> Ok(1)], {1},
                 [f \in fs |-> IF f = 1 THEN Ok(ms) ELSE Ok({})],
                 [m \in ms |-> IF m = 1 THEN Ok({1, 2}) ELSE Ok({1})],
                 sem, low,
                 [f \in fs |-> Syntax("noisy", f)]) :
            sem \in [ms -> {Semantic("noisy", 1), Err(<<>>)}],
            low \in [ms -> {Lowering("noisy", 1), Err(<<>>)}]}

\* The databases of the discovery runs: every resolution of the main file
\* of every module, failed ones included, every set of on-disk files, and
\* the second crate loaded or not.  Nothing is declared.
DiscoveryDatabases(fs, ms) ==
    {[Database(fs, ms, {1, 2},
               [c \in {1, 2} |-> {m \in ms : m % 2 = c % 2}],
               mmf, od,
               [f \in fs |-> Ok({})], [m \in ms |-> Ok({})],
               [m \in ms |-> Semantic("clean", m)],
               [m \in ms |-> Lowering("clean", m)],
               [f \in fs |-> Syntax("clean", f)]) EXCEPT !.crates = cr] :
        mmf \in [ms -> {Ok(f) : f \in fs} \cup {Err(0)}],
        od \in SUBSET fs,
        cr \in {{1}, {1, 2}}}

\* The databases of the partition runs: module m has main file m, any of
\* the files on disk, nothing declared, nothing failing, no diagnostics
PartitionDatabases(fs) ==
    {Database(fs, fs, {1, 2},
              [c \in {1, 2} |-> {m \in fs : m % 2 = c % 2}],
              [m \in fs |-> Ok(m)], od,
              [f \in fs |-> Ok({})], [m \in fs |-> Ok({})],
              [m \in fs |-> Semantic("clean", m)],
              [m \in fs |-> Lowering("clean", m)],
              [f \in fs |-> Syntax("clean", f)]) : od \in SUBSET fs}

\* The project of the end-to-end scenario: two crates, each with one module
\* whose main file is on disk, declares no module and has no diagnostics
EndToEndDatabases ==
    {Database({1, 2}, {1, 2}, {1, 2},
              [c \in {1, 2} |-> {c}],
              [m \in {1, 2} |-> Ok(m)], {1, 2},
              [f \in {1, 2} |-> Ok({})], [m \in {1, 2} |-> Ok({})],
              [m \in {1, 2} |-> Semantic("clean", m)],
              [m \in {1, 2} |-> Lowering("clean", m)],
              [f \in {1, 2} |-> Syntax("clean", f)])}

\* Files 1..R on disk, nothing declared, and any of them making its query
\* panic
PanicDatabases ==
    UNION {{[PassDatabase(1..R, "flat", 0) EXCEPT !.panics = P] : P \in SUBSET (1..R)} :
                R \in 0..MaxPoolFiles}

\* The databases of the closure runs: every file/module relation over the
\* closure ids, every query possibly failing, mixed diagnostics.  File 1 is
\* the only on-disk file and the main file of every module.
Results(S) == {Ok(x) : x \in SUBSET S} \cup {Err({})}

ClosureDatabases(fs, ms) ==
    {Database(fs, ms, {1}, [c \in {1} |-> ms], [m \in ms |-> Ok(1)], {1},
              fm, mf,
              [m \in ms |-> Semantic("mixed", m)],
              [m \in ms |-> Lowering("mixed", m)],
              [f \in fs |-> Syntax("mixed", f)]) :
        fm \in [fs -> Results(ms)], mf \in [ms -> Results(fs)]}

\* ------------------------------------------------------------- project.rs
\* Option<T>
None == <<>>
Some(v) == <<v>>

\* cairo_lang_filesystem::db::CORELIB_CRATE_NAME
CORELIB_CRATE_NAME == "core"

\* struct Crate: the fields that name the crate and its main files (root,
\* settings and plugins do not take part in what is modelled)
Crate(name, discriminator, custom_main_file_stems) ==
    [name |-> name, discriminator |-> discriminator,
     custom_main_file_stems |-> custom_main_file_stems]

\* A component of a compilation unit of the scarb metadata:
\*   id, discriminator   Option
\*   package             a package was found for it (project.rs 50-71)
\*   source              the file stem of its source path, "" when
\*                       validate_and_chop_source_path fails
\*   main                compilation_unit.package == component.package
Component(id, name, discriminator, package, source, main) ==
    [id |-> id, name |-> name, discriminator |-> discriminator,
     package |-> package, source |-> source, main |-> main]

\* A compilation unit: target.kind, target.params.get("group-id") (an
\* Option of a JSON value, a string or not) and its components
CompilationUnit(kind, group_id, components) ==
    [kind |-> kind, group_id |-> group_id, components |-> components]

\* serde_json::Value, as far as as_str() tells values apart
JsonString(text) == [string |-> TRUE, text |-> text]
JsonOther == [string |-> FALSE, text |-> ""]

\* HashMap::insert
Insert(map, key, value) ==
    [k \in DOMAIN map \cup {key} |-> IF k = key THEN value ELSE map[k]]

\* crates_grouped_by_group_id.entry(group_id).or_insert(vec![]).push(cr)
Push(map, key, value) ==
    [k \in DOMAIN map \cup {key} |->
        IF k = key THEN (IF key \in DOMAIN map THEN Append(map[key], value) ELSE <<value>>)
        ELSE map[k]]

\* The `continue`s of the loop over the components: no id, no package, a
\* source path that does not validate
Extracted(component) ==
    /\ component.id /= None
    /\ component.package
    /\ component.source /= ""

\* One turn of `for component in &compilation_unit.components`.  acc is the
\* two maps, crates_by_component_id and crates_grouped_by_group_id.
ExtractComponent(unit, component, acc) ==
    IF ~Extracted(component) THEN acc
    ELSE LET custom_main_file_stems ==
                IF component.source /= "lib" THEN Some(<<component.source>>) ELSE None
             cr == Crate(component.name, component.discriminator, custom_main_file_stems)
             grouped == /\ component.main
                        /\ unit.group_id /= None
                        /\ unit.group_id[1].string
                        /\ custom_main_file_stems /= None
         IN IF grouped
            THEN [acc EXCEPT !.by_group_id = Push(@, unit.group_id[1].text, cr)]
            ELSE [acc EXCEPT !.by_component_id = Insert(@, component.id[1], cr)]

RECURSIVE ExtractComponents(_, _, _)
ExtractComponents(unit, components, acc) ==
    IF components = <<>> THEN acc
    ELSE ExtractComponents(unit, Tail(components),
                           ExtractComponent(unit, Head(components), acc))

\* `for compilation_unit in &metadata.compilation_units`
RECURSIVE ExtractUnits(_, _)
ExtractUnits(units, acc) ==
    IF units = <<>> THEN acc
    ELSE ExtractUnits(Tail(units),
            IF Head(units).kind = "cairo-plugin" THEN acc
            ELSE ExtractComponents(Head(units), Head(units).components, acc))

\* flat_map(|cr| cr.custom_main_file_stems.clone().unwrap())
RECURSIVE Stems(_)
Stems(crs) ==
    IF crs = <<>> THEN <<>>
    ELSE Head(crs).custom_main_file_stems[1] \o Stems(Tail(crs))

\* The crate the crates of one group are merged into
Merged(crs) == Crate(crs[1].name, crs[1].discriminator, Some(Stems(crs)))

\* fn extract_crates: the Vecs it may return, the values of the first map
\* in the order the HashMap iterates, then one merged crate per group in
\* the order of the second
extract_crates(units) ==
    LET maps == ExtractUnits(units, [by_component_id |-> <<>>, by_group_id |-> <<>>])
        ids == DOMAIN maps.by_component_id
        groups == DOMAIN maps.by_group_id
    IN {[i \in 1..Cardinality(ids) |-> maps.by_component_id[p[i]]]
            \o [i \in 1..Cardinality(groups) |-> Merged(maps.by_group_id[q[i]])] :
        p \in Perms(ids), q \in Perms(groups)}

\* The metadata scarb gives for a project of the crates `crates` of a
\* database: crate 1 is core, the others are packages with a
\* discriminator; one compilation unit for all, each crate a lib.cairo
ProjectMetadata(crates) ==
    IF crates = {} THEN <<>>
    ELSE <<CompilationUnit("lib", None,
            [i \in 1..Cardinality(crates) |->
                LET c == SortedSeq(crates)[i]
                IN Component(Some(c),
                             IF c = 1 THEN CORELIB_CRATE_NAME ELSE "hello",
                             IF c = 1 THEN None ELSE Some(c - 1),
                             TRUE, "lib", c /= 1)])>>

\* Any component: no id, no package, no valid source path, or a component
\* with any name, discriminator or none, lib.cairo or another main file
Components(ids) ==
    {Component(None, "hello", Some(1), TRUE, "lib", TRUE),
     Component(Some(1), "hello", Some(1), FALSE, "lib", TRUE),
     Component(Some(1), "hello", Some(1), TRUE, "", TRUE)}
    \cup {Component(Some(id), name, discriminator, TRUE, source, main) :
            id \in ids, name \in {CORELIB_CRATE_NAME, "hello"},
            discriminator \in {None, Some(1)}, source \in {"lib", "tests"},
            main \in BOOLEAN}

\* Any compilation unit of exactly k components
Units(k, ids) ==
    {CompilationUnit("cairo-plugin", None, <<>>)}
    \cup {CompilationUnit("test", group_id, components) :
            group_id \in {None, Some(JsonString("g")), Some(JsonOther)},
            components \in [1..k -> Components(ids)]}

\* The metadata of the load runs: one compilation unit of up to `comps`
\* components, or up to `units` compilation units of one component
Metadatas(units, comps, ids) ==
    UNION {{<<unit>> : unit \in Units(k, ids)} : k \in 1..comps}
    \cup UNION {[1..n -> Units(1, ids)] : n \in 0..units}

\* ------------------------------------------------------------------ state
VARIABLES
    db,            \* the RootDatabase of main()
    metadata,      \* the compilation units `scarb metadata` gave
    crates_to_load,\* the crates load_scarb_project has still to apply
    host,          \* available_parallelism(); 0 when it fails
    max_threads,   \* threads_limit
    pc,            \* where the main thread is in main()
    parallelism,   \* Pool.parallelism (0 before Pool::new)
    job_sender,    \* TRUE while Pool.job_sender is alive
    channel,       \* the jobs sent and not yet received
    joined,        \* how many of Pool._handles have been joined by Drop
    files,         \* the Vec discovery returned
    files_again,   \* the Vec a second run of discovery returned, if any
    files_batches, \* Vec<Vec<FileId>>
    db_snapshots,  \* Vec<Snapshot>, a snapshot is its index
    spawned,       \* how many (batch, snapshot) pairs spawn_refresh_workers has sent
    worker,        \* worker[w]: the locals of worker thread w
    log            \* log[w]: what worker thread w did, in order

vars == <<db, metadata, crates_to_load, host, max_threads, pc, parallelism, job_sender, channel, joined,
          files, files_again, files_batches, db_snapshots, spawned, worker, log>>

inputs == <<db, metadata, crates_to_load, host, max_threads>>
pool == <<parallelism, job_sender, channel, joined>>
locals == <<files, files_again, files_batches, db_snapshots, spawned>>

\* mutant: every job captures the first snapshot
JobSharingSnapshot(i, batch, snapshot) == [id |-> i, batch |-> batch, snapshot |-> Min(snapshot, 1)]

\* struct Job, here the closure spawn_refresh_workers builds: it owns one
\* batch and one snapshot.
Job(i, batch, snapshot) == [id |-> i, batch |-> batch, snapshot |-> snapshot]
NoJob == Job(0, <<>>, 0)

\* A worker thread that unwound out of a panicking job: the job, its batch
\* and its snapshot are dropped, and so is the thread's Receiver.
Panicked ==
    [pc |-> "panicked", job |-> NoJob, batch |-> <<>>, root |-> 0,
     files |-> {}, modules |-> {}, modules_queue |-> <<>>,
     module_id |-> 0, module_files |-> <<>>,
     todo_modules |-> {}, todo_files |-> {}]

\* A worker thread blocked in its `for job in job_receiver`.
Receiving ==
    [pc |-> "recv", job |-> NoJob, batch |-> <<>>, root |-> 0,
     files |-> {}, modules |-> {}, modules_queue |-> <<>>,
     module_id |-> 0, module_files |-> <<>>,
     todo_modules |-> {}, todo_files |-> {}]

\* One entry of a worker's log: a query on the job's snapshot (kind: the
\* query, arg: its argument), something written to the error stream
\* ("error": the line of a skipped root; "print": one diagnostic entry) or a
\* position of the job ("recv", "done": calculate_diags_for_file returned,
\* "job_end").  root is the root file being processed, 0 outside of one;
\* query is the query a printed entry comes from, and the kind otherwise.
Event(kind, job, root, arg) ==
    [kind |-> kind, job |-> job.id, snapshot |-> job.snapshot,
     root |-> root, arg |-> arg, query |-> kind]

Queries == {"file_modules", "module_files", "semantic", "lowering", "syntax"}
Writes == {"error", "print"}

\* print_diags on the result of a query: one write per entry it prints
Printed(job, root, query, arg, diags) ==
    [i \in 1..Len(print_diags(diags)) |->
        [Event("print", job, root, arg) EXCEPT !.query = query]]

Emit(w, events) == log' = [log EXCEPT ![w] = @ \o events]

\* ------------------------------------------------------------------- Init
Hosts == 0..MaxHost
Budgets == 1..MaxBudget

\* mutant: unwrap_or_default() for unwrap_or(DEFAULT_PARALLELISM)
ThreadsOrZero(h, b) == Min(h, b)

\* mutant: the host's parallelism is not taken into account
ThreadsOfBudget(h, b) == b

\* pool.rs Pool::new: let threads = available_parallelism()...min(max_threads)
Threads(h, b) == Min(IF h = 0 THEN DEFAULT_PARALLELISM ELSE h, b)

\* main() in load_scarb_project: RootDatabase::empty() has no crate, and
\* extract_crates has given the crates of the project in some order.
InitWith(databases, hosts, budgets) ==
    /\ \E project \in databases :
            /\ db = [project EXCEPT !.crates = {}]
            /\ metadata = ProjectMetadata(project.crates)
            /\ crates_to_load \in extract_crates(metadata)
    /\ host \in hosts
    /\ max_threads \in budgets
    /\ pc = "load"
    /\ parallelism = 0
    /\ job_sender = FALSE
    /\ channel = <<>>
    /\ joined = 0
    /\ files = <<>>
    /\ files_batches = <<>>
    /\ db_snapshots = <<>>
    /\ spawned = 0
    /\ files_again = <<>>
    /\ worker = <<>>
    /\ log = <<>>

Init == InitWith(PassDatabases, Hosts, Budgets)

InitClosure ==
    InitWith(ClosureDatabases(1..MaxClosureFiles, 1..MaxClosureModules), {1}, {1})

InitUnavailable == InitWith(UnavailableDatabases, {1}, {1})

\* main() on the project of the end-to-end scenario, with --threads-limit 4
\* on a host whose available_parallelism() is 2
InitEndToEnd == InitWith(EndToEndDatabases, {2}, {4})

\* Pool::new called with any usize, on any host, by a pass over a loaded
\* project whose queries may panic
InitPool ==
    /\ db \in PanicDatabases
    /\ metadata = ProjectMetadata(db.crates)
    /\ crates_to_load = <<>>
    /\ host \in 0..MaxPoolHost
    /\ max_threads \in 0..MaxPoolBudget
    /\ pc = "new"
    /\ parallelism = 0
    /\ job_sender = FALSE
    /\ channel = <<>>
    /\ joined = 0
    /\ files = <<>>
    /\ files_batches = <<>>
    /\ db_snapshots = <<>>
    /\ spawned = 0
    /\ files_again = <<>>
    /\ worker = <<>>
    /\ log = <<>>

\* The pass right before `find_all_files_from_all_crates(db)`, on one
\* worker, for every database of the discovery runs
InitDiscovery ==
    /\ db \in DiscoveryDatabases(1..MaxDiscoveryFiles, 1..MaxDiscoveryModules)
    /\ metadata = ProjectMetadata(db.crates)
    /\ crates_to_load = <<>>
    /\ host = 1
    /\ max_threads = 1
    /\ pc = "find_all_files"
    /\ parallelism = 1
    /\ job_sender = TRUE
    /\ channel = <<>>
    /\ joined = 0
    /\ files = <<>>
    /\ files_batches = <<>>
    /\ db_snapshots = <<>>
    /\ spawned = 0
    /\ files_again = <<>>
    /\ worker = [w \in 1..parallelism |-> Receiving]
    /\ log = [w \in 1..parallelism |-> <<>>]

\* The pass right before `batches(&files, self.pool.parallelism())`, for
\* every discovered Vec of every flat database and every pool
InitBatches ==
    /\ db \in FlatDatabases
    /\ metadata = ProjectMetadata(db.crates)
    /\ crates_to_load = <<>>
    /\ host \in Hosts
    /\ max_threads \in Budgets
    /\ pc = "batches"
    /\ parallelism = Threads(host, max_threads)
    /\ job_sender = TRUE
    /\ channel = <<>>
    /\ joined = 0
    /\ files \in Perms(find_all_files_from_all_crates(db))
    /\ files_batches = <<>>
    /\ db_snapshots = <<>>
    /\ spawned = 0
    /\ files_again = <<>>
    /\ worker = [w \in 1..parallelism |-> Receiving]
    /\ log = [w \in 1..parallelism |-> <<>>]

\* The pass right before `batches(&files, self.pool.parallelism())`, for
\* every discovered Vec of 0..MaxPartitionFiles files in every order and
\* every pool of 1..MaxPartitionWorkers threads
InitPartition ==
    /\ db \in PartitionDatabases(1..MaxPartitionFiles)
    /\ metadata = ProjectMetadata(db.crates)
    /\ crates_to_load = <<>>
    /\ host \in 1..MaxPartitionWorkers
    /\ max_threads = host
    /\ pc = "batches"
    /\ parallelism = Threads(host, max_threads)
    /\ job_sender = TRUE
    /\ channel = <<>>
    /\ joined = 0
    /\ files \in Perms(find_all_files_from_all_crates(db))
    /\ files_batches = <<>>
    /\ db_snapshots = <<>>
    /\ spawned = 0
    /\ files_again = <<>>
    /\ worker = [w \in 1..parallelism |-> Receiving]
    /\ log = [w \in 1..parallelism |-> <<>>]

\* load_scarb_project right after MetadataCommand::exec() has succeeded,
\* for every metadata of the load runs
InitLoad ==
    /\ db \in {[project EXCEPT !.crates = {}] : project \in EndToEndDatabases}
    /\ metadata \in Metadatas(MaxUnits, MaxComponents, 1..MaxComponentIds)
    /\ crates_to_load = <<>>
    /\ host = 2
    /\ max_threads = 4
    /\ pc = "extract_crates"
    /\ parallelism = 0
    /\ job_sender = FALSE
    /\ channel = <<>>
    /\ joined = 0
    /\ files = <<>>
    /\ files_batches = <<>>
    /\ db_snapshots = <<>>
    /\ spawned = 0
    /\ files_again = <<>>
    /\ worker = <<>>
    /\ log = <<>>

\* ------------------------------------------------------------ main thread
\* let crates_to_load = extract_crates(&metadata)
ExtractCrates ==
    /\ pc = "extract_crates"
    /\ crates_to_load' \in extract_crates(metadata)
    /\ pc' = "load"
    /\ UNCHANGED <<db, metadata, host, max_threads, pool, locals, worker, log>>

\* The assert! of Crate::apply: only the core crate has no discriminator
OnlyCoreHasNoDiscriminator(cr) ==
    (cr.name = CORELIB_CRATE_NAME) /= (cr.discriminator /= None)

\* CrateLongId::Real { name, discriminator }.intern(db): crate 1 is core,
\* crate 1 + d the crate of discriminator d
intern(cr) == IF cr.discriminator = None THEN 1 ELSE 1 + cr.discriminator[1]

\* Crate::apply(&mut db) past its assert!: the crate gets its configuration
\* and its plugins
apply(d, cr) == [d EXCEPT !.crates = @ \cup {intern(cr)}]

\* mutant: load_scarb_project returns at once and the crates are applied
\* while the pass runs
ApplyCrateInBackground ==
    \/ /\ pc = "load"
       /\ pc' = "new"
       /\ UNCHANGED <<inputs, pool, locals, worker, log>>
    \/ /\ pc \notin {"load", "failed"}
       /\ crates_to_load /= <<>>
       /\ db' = apply(db, Head(crates_to_load))
       /\ crates_to_load' = Tail(crates_to_load)
       /\ UNCHANGED <<metadata, host, max_threads, pc, pool, locals, worker, log>>

\* load_scarb_project, one turn of `for cr in crates_to_load`: cr.apply
\* panics when its assert! fails, and main unwinds
ApplyCrate ==
    /\ pc = "load"
    /\ crates_to_load /= <<>>
    /\ IF OnlyCoreHasNoDiscriminator(Head(crates_to_load))
       THEN /\ db' = apply(db, Head(crates_to_load))
            /\ crates_to_load' = Tail(crates_to_load)
            /\ pc' = pc
       ELSE /\ pc' = "panic"
            /\ UNCHANGED <<db, crates_to_load>>
    /\ UNCHANGED <<metadata, host, max_threads, pool, locals, worker, log>>

\* MetadataCommand::exec()? is an error: load_scarb_project returns it and
\* main returns it, before any crate is applied
LoadFails ==
    /\ pc = "load"
    /\ db.crates = {}
    /\ crates_to_load' = <<>>
    /\ pc' = "failed"
    /\ UNCHANGED <<db, metadata, host, max_threads, pool, locals, worker, log>>

\* load_scarb_project returns Ok(db); main calls
\* calculate_diagnostics_for_all_files(&db, threads_limit)
Loaded ==
    /\ pc = "load"
    /\ crates_to_load = <<>>
    /\ pc' = "new"
    /\ UNCHANGED <<inputs, pool, locals, worker, log>>

\* DiagnosticController::new -> Pool::new: spawns the worker threads, each
\* with its clone of the receiver.  NonZero::new(0).unwrap() panics.
PoolNew ==
    /\ pc = "new"
    /\ LET threads == Threads(host, max_threads)
       IN /\ worker' = [w \in 1..threads |-> Receiving]
          /\ log' = [w \in 1..threads |-> <<>>]
          /\ job_sender' = (threads /= 0)
          /\ parallelism' = threads
          /\ pc' = IF threads = 0 THEN "panic" ELSE "find_all_files"
    /\ UNCHANGED <<inputs, channel, joined, locals>>

\* let files = find_all_files_from_all_crates(db): the HashSet collected
\* into a Vec in the order the HashSet iterates.
FindAllFiles ==
    /\ pc = "find_all_files"
    /\ files' \in Perms(find_all_files_from_all_crates(db))
    /\ pc' = "batches"
    /\ UNCHANGED <<inputs, pool, files_again, files_batches, db_snapshots, spawned, worker, log>>

\* mutant: discovery takes the crates out of the database
FindAllFilesAgainTakingCrates ==
    /\ pc = "batches"
    /\ files_again = <<>>
    /\ db.crates /= {}
    /\ db' = [db EXCEPT !.crates = {}]
    /\ \E again \in Perms(find_all_files_from_all_crates(db')) : files_again' = <<again>>
    /\ UNCHANGED <<metadata, crates_to_load, host, max_threads, pc, pool, files,
                   files_batches, db_snapshots, spawned, worker, log>>

\* find_all_files_from_all_crates(db) called once more on the database of
\* the first call: a new HashSet, collected in the order it iterates.
FindAllFilesAgain ==
    /\ pc = "batches"
    /\ files_again = <<>>
    /\ \E again \in Perms(find_all_files_from_all_crates(db)) : files_again' = <<again>>
    /\ UNCHANGED <<inputs, pc, pool, files, files_batches, db_snapshots, spawned, worker, log>>

\* let files_batches = batches(&files, self.pool.parallelism())
Batches ==
    /\ pc = "batches"
    /\ files_batches' = batches(files, parallelism)
    /\ pc' = "snapshots"
    /\ UNCHANGED <<inputs, pool, files, files_again, db_snapshots, spawned, worker, log>>

\* mutant: one snapshot per discovered file
SnapshotsPerFile ==
    /\ pc = "snapshots"
    /\ db_snapshots' = [i \in 1..Len(files) |-> i]
    /\ pc' = "spawn_refresh_workers"
    /\ UNCHANGED <<inputs, pool, files, files_again, files_batches, spawned, worker, log>>

\* let db_snapshots = iter::from_fn(..).take(parallelism).collect()
Snapshots ==
    /\ pc = "snapshots"
    /\ db_snapshots' = [i \in 1..parallelism |-> i]
    /\ pc' = "spawn_refresh_workers"
    /\ UNCHANGED <<inputs, pool, files, files_again, files_batches, spawned, worker, log>>

\* crossbeam Sender::send on an unbounded channel
Send(q, job) == Append(q, job)

\* mutant: one Receiver shared by the threads, lost with the first panic
ConnectedUntilPanic == \A w \in DOMAIN worker : worker[w].pc /= "panicked"

\* send is Ok while a Receiver is alive; the Receivers are the clones the
\* worker threads own
Connected == \E w \in DOMAIN worker : worker[w].pc \notin {"exited", "panicked"}

\* spawn_refresh_workers: the assert_eq!, then one self.pool.spawn per pair
\* of the zip, whose send(job).unwrap() panics on a disconnected channel;
\* after the last pair the function returns.
SpawnRefreshWorkers ==
    /\ pc = "spawn_refresh_workers"
    /\ IF Len(files_batches) /= Len(db_snapshots)
       THEN /\ pc' = "panic"
            /\ UNCHANGED <<channel, spawned>>
       ELSE IF spawned < Min(Len(files_batches), Len(db_snapshots)) /\ ~Connected
       THEN /\ pc' = "panic"
            /\ UNCHANGED <<channel, spawned>>
       ELSE IF spawned < Min(Len(files_batches), Len(db_snapshots))
       THEN /\ channel' = Send(channel,
                    Job(spawned + 1, files_batches[spawned + 1], db_snapshots[spawned + 1]))
            /\ spawned' = spawned + 1
            /\ pc' = pc
       ELSE /\ pc' = "drop"
            /\ UNCHANGED <<channel, spawned>>
    /\ UNCHANGED <<inputs, parallelism, job_sender, joined, files, files_again, files_batches,
                   db_snapshots, worker, log>>

\* mutant: _handles declared above job_sender, the sender is still alive
\* while the handles are joined
DropJobSenderLast ==
    /\ pc = "drop"
    /\ pc' = "join"
    /\ UNCHANGED <<inputs, pool, locals, worker, log>>

\* drop(diag_controller): Pool's fields drop in declaration order, first
\* job_sender (the only Sender: the channel disconnects) ...
DropJobSender ==
    /\ pc = "drop"
    /\ job_sender' = FALSE
    /\ pc' = "join"
    /\ UNCHANGED <<inputs, parallelism, channel, joined, locals, worker, log>>

\* mutant: a std::thread::JoinHandle, whose drop detaches the thread
FinishedOrDetached(w) == TRUE

\* mutant: the join does not wait for a thread blocked on the channel
FinishedOrIdle(w) == worker[w].pc \in {"exited", "panicked", "recv"}

\* jod_thread::JoinHandle::drop blocks until its thread has finished, by
\* returning from its closure or by unwinding from a panic
Finished(w) == worker[w].pc \in {"exited", "panicked"}

\* ... then _handles, one JoinHandle after the other.
JoinHandle ==
    /\ pc = "join"
    /\ joined < parallelism
    /\ Finished(joined + 1)
    /\ joined' = joined + 1
    /\ UNCHANGED <<inputs, pc, parallelism, job_sender, channel, locals, worker, log>>

\* All handles dropped.  jod_thread's drop re-raises the panic of a thread
\* that panicked (the handles after it are still joined, by the unwinding):
\* the main thread then unwinds out of main.  Otherwise drop returns, the
\* elapsed time is printed to the standard output and the pass returns.
Return ==
    /\ pc = "join"
    /\ joined = parallelism
    /\ pc' = IF \E w \in DOMAIN worker : worker[w].pc = "panicked" THEN "unwind" ELSE "done"
    /\ UNCHANGED <<inputs, pool, locals, worker, log>>

\* --------------------------------------------------------- worker threads
\* mutant: the job is read and left in the channel
DequeueLeaving(q) == q

\* mutant: the job received is not the one that leaves the channel
DequeueOther(q) == SubSeq(q, 1, Len(q) - 1)

\* crossbeam Receiver: a received job leaves the channel
Dequeue(q) == Tail(q)

\* mutant: the loop ends as soon as the channel is closed
DisconnectedWhenClosed == ~job_sender

\* mutant: a panic poisons the channel, the other threads leave their loops
DisconnectedByPanic ==
    \/ channel = <<>> /\ ~job_sender
    \/ \E w \in DOMAIN worker : worker[w].pc = "panicked"

\* crossbeam Receiver iteration ends when the channel is empty and every
\* Sender has been dropped
Disconnected == channel = <<>> /\ ~job_sender

\* mutant: the files left in the batch are taken in another order
AtBatchRotated(wr) ==
    [Receiving EXCEPT !.pc = "batch", !.job = wr.job,
                      !.batch = IF wr.batch = <<>> THEN <<>>
                                ELSE Tail(wr.batch) \o <<Head(wr.batch)>>]

\* The locals of a worker at the head of `for file in batch`.
AtBatch(wr) == [Receiving EXCEPT !.pc = "batch", !.job = wr.job, !.batch = wr.batch]

\* mutant: an unavailable result is reported as an entry
unwrap_or_report(r) == IF r.ok THEN r.val ELSE <<"unavailable">>

\* Result::unwrap_or_default on a diagnostics query
unwrap_or_default(r) == IF r.ok THEN r.val ELSE <<>>

\* `for job in job_receiver`: a job arrives; (job.f)() starts
Recv(w) ==
    /\ worker[w].pc = "recv"
    /\ channel /= <<>>
    /\ LET job == Head(channel)
       IN /\ worker' = [worker EXCEPT ![w] =
                            [Receiving EXCEPT !.pc = "batch", !.job = job, !.batch = job.batch]]
          /\ Emit(w, <<Event("recv", job, 0, 0)>>)
    /\ channel' = Dequeue(channel)
    /\ UNCHANGED <<inputs, pc, parallelism, job_sender, joined, locals>>

\* `for job in job_receiver` ends: the thread's closure returns
Exit(w) ==
    /\ worker[w].pc = "recv"
    /\ Disconnected
    /\ worker' = [worker EXCEPT ![w].pc = "exited"]
    /\ UNCHANGED <<inputs, pc, pool, locals, log>>

\* `for file in batch` is exhausted: the job returns and drops its batch and
\* its snapshot
EndJob(w) ==
    /\ worker[w].pc = "batch"
    /\ worker[w].batch = <<>>
    /\ worker' = [worker EXCEPT ![w] = Receiving]
    /\ Emit(w, <<Event("job_end", worker[w].job, 0, 0)>>)
    /\ UNCHANGED <<inputs, pc, pool, locals>>

\* mutant: the skip is not reported
SkippedSilently(job, root) == <<Event("done", job, root, 0)>>

\* calculate_diags_for_file when file_and_subfiles_with_corresponding_modules
\* is None: the error line, then return
Skipped(job, root) == <<Event("error", job, root, 0), Event("done", job, root, 0)>>

\* mutant: the failure ends the job, the rest of the batch is dropped
AfterSkipEndingJob(wr) == [AtBatch(wr) EXCEPT !.batch = <<>>]

\* The `return` after the error line: back in `for file in batch`
AfterSkip(wr) == AtBatch(wr)

\* The next file of the batch: calculate_diags_for_file(&snapshot, file)
\* starts file_and_subfiles_with_corresponding_modules with
\* db.file_modules(file).ok()?, the sets and the queue.  A query that panics
\* unwinds the job and the thread's closure: the thread is over, and the
\* panic hook has written its message.
BeginFile(w) ==
    /\ worker[w].pc = "batch"
    /\ worker[w].batch /= <<>>
    /\ LET wr == worker[w]
           file == Head(wr.batch)
           rest == [wr EXCEPT !.batch = Tail(wr.batch)]
           r == db.file_modules[file]
           query == Event("file_modules", wr.job, file, file)
       IN IF file \in db.panics
          THEN /\ worker' = [worker EXCEPT ![w] = Panicked]
               /\ Emit(w, <<Event("panic", wr.job, file, file)>>)
          ELSE IF r.ok
          THEN /\ \E queue \in Perms(r.val) :
                    worker' = [worker EXCEPT ![w] =
                        [rest EXCEPT !.pc = "queue", !.root = file, !.files = {file},
                                     !.modules = r.val, !.modules_queue = queue]]
               /\ Emit(w, <<query>>)
          ELSE /\ worker' = [worker EXCEPT ![w] = AfterSkip(rest)]
               /\ Emit(w, <<query>> \o Skipped(wr.job, file))
    /\ UNCHANGED <<inputs, pc, pool, locals>>

\* `while let Some(module_id) = modules_queue.pop_front()` with a module:
\* db.module_files(module_id).ok()? and the start of the loop over its files
PopFront(w) ==
    /\ worker[w].pc = "queue"
    /\ worker[w].modules_queue /= <<>>
    /\ LET wr == worker[w]
           module_id == Head(wr.modules_queue)
           r == db.module_files[module_id]
           query == Event("module_files", wr.job, wr.root, module_id)
       IN IF r.ok
          THEN /\ worker' = [worker EXCEPT ![w] =
                    [wr EXCEPT !.modules_queue = Tail(wr.modules_queue),
                               !.module_id = module_id,
                               !.module_files = SortedSeq(r.val),
                               !.pc = IF r.val = {} THEN "queue" ELSE "module_files"]]
               /\ Emit(w, <<query>>)
          ELSE /\ worker' = [worker EXCEPT ![w] = AfterSkip(wr)]
               /\ Emit(w, <<query>> \o Skipped(wr.job, wr.root))
    /\ UNCHANGED <<inputs, pc, pool, locals>>

\* mutant: the test of the insertion is inverted
InsertedInverted(set, x) == x \in set

\* mutant: the result of the insertion is ignored
InsertedAlways(set, x) == TRUE

\* HashSet::insert: TRUE when the value was not present
Inserted(set, x) == x \notin set

\* mutant: a file not seen before is inserted and its modules are not
\* collected
ModuleFileSkippingModules(w) ==
    /\ worker[w].pc = "module_files"
    /\ LET wr == worker[w]
           file_id == Head(wr.module_files)
           more == Tail(wr.module_files)
           after == [wr EXCEPT !.module_files = more,
                               !.pc = IF more = <<>> THEN "queue" ELSE "module_files"]
       IN /\ worker' = [worker EXCEPT ![w] = [after EXCEPT !.files = wr.files \cup {file_id}]]
          /\ UNCHANGED log
    /\ UNCHANGED <<inputs, pc, pool, locals>>

\* One turn of `for file_id in db.module_files(module_id)`: a file not seen
\* before is inserted, its modules are queried and the new ones are
\* inserted and pushed to the back of the queue.
ModuleFile(w) ==
    /\ worker[w].pc = "module_files"
    /\ LET wr == worker[w]
           file_id == Head(wr.module_files)
           more == Tail(wr.module_files)
           after == [wr EXCEPT !.module_files = more,
                               !.pc = IF more = <<>> THEN "queue" ELSE "module_files"]
           r == db.file_modules[file_id]
           query == Event("file_modules", wr.job, wr.root, file_id)
       IN IF ~Inserted(wr.files, file_id)
          THEN /\ worker' = [worker EXCEPT ![w] = after]
               /\ UNCHANGED log
          ELSE IF file_id \in db.panics
          THEN /\ worker' = [worker EXCEPT ![w] = Panicked]
               /\ Emit(w, <<Event("panic", wr.job, wr.root, file_id)>>)
          ELSE IF r.ok
          THEN /\ worker' = [worker EXCEPT ![w] =
                    [after EXCEPT !.files = wr.files \cup {file_id},
                                  !.modules = wr.modules \cup r.val,
                                  !.modules_queue = wr.modules_queue \o
                                      SortedSeq({m \in r.val : Inserted(wr.modules, m)})]]
               /\ Emit(w, <<query>>)
          ELSE /\ worker' = [worker EXCEPT ![w] = AfterSkip(wr)]
               /\ Emit(w, <<query>> \o Skipped(wr.job, wr.root))
    /\ UNCHANGED <<inputs, pc, pool, locals>>

\* mutant: only the modules the root file declares get their diagnostics
TraversalDoneRootModules(w) ==
    /\ worker[w].pc = "queue"
    /\ worker[w].modules_queue = <<>>
    /\ LET declared == worker[w].modules \cap db.file_modules[worker[w].root].val
       IN worker' = [worker EXCEPT ![w] =
            [@ EXCEPT !.todo_modules = declared,
                      !.todo_files = worker[w].files,
                      !.pc = IF declared = {} THEN "files_diags" ELSE "modules_diags"]]
    /\ UNCHANGED <<inputs, pc, pool, locals, log>>

\* The queue is empty: Some((files, modules)), and calculate_diags_for_file
\* goes on to its two loops over the sets.
TraversalDone(w) ==
    /\ worker[w].pc = "queue"
    /\ worker[w].modules_queue = <<>>
    /\ worker' = [worker EXCEPT ![w] =
            [@ EXCEPT !.todo_modules = worker[w].modules,
                      !.todo_files = worker[w].files,
                      !.pc = IF worker[w].modules = {} THEN "files_diags"
                                                       ELSE "modules_diags"]]
    /\ UNCHANGED <<inputs, pc, pool, locals, log>>

\* One turn of `for module_id in modules_to_process`, in the HashSet's order:
\* semantic diagnostics, printed, then lowering diagnostics, printed.
ModuleDiags(w) ==
    /\ worker[w].pc = "modules_diags"
    /\ \E module_id \in worker[w].todo_modules :
        LET wr == worker[w]
            more == wr.todo_modules \ {module_id}
        IN /\ worker' = [worker EXCEPT ![w] =
                    [wr EXCEPT !.todo_modules = more,
                               !.pc = IF more = {} THEN "files_diags" ELSE "modules_diags"]]
           /\ Emit(w, <<Event("semantic", wr.job, wr.root, module_id)>>
                    \o Printed(wr.job, wr.root, "semantic", module_id,
                               unwrap_or_default(db.semantic[module_id]))
                    \o <<Event("lowering", wr.job, wr.root, module_id)>>
                    \o Printed(wr.job, wr.root, "lowering", module_id,
                               unwrap_or_default(db.lowering[module_id])))
    /\ UNCHANGED <<inputs, pc, pool, locals>>

\* One turn of `for file_id in files_to_process`: syntax diagnostics,
\* printed; after the last file calculate_diags_for_file returns.
FileDiags(w) ==
    /\ worker[w].pc = "files_diags"
    /\ \E file_id \in worker[w].todo_files :
        LET wr == worker[w]
            more == wr.todo_files \ {file_id}
        IN /\ worker' = [worker EXCEPT ![w] =
                    IF more = {} THEN AtBatch(wr) ELSE [wr EXCEPT !.todo_files = more]]
           /\ Emit(w, <<Event("syntax", wr.job, wr.root, file_id)>>
                    \o Printed(wr.job, wr.root, "syntax", file_id, db.syntax[file_id])
                    \o (IF more = {} THEN <<Event("done", wr.job, wr.root, 0)>> ELSE <<>>))
    /\ UNCHANGED <<inputs, pc, pool, locals>>

\* ------------------------------------------------------------------- Next
\* lib.rs calculate_diagnostics_for_all_files
Pass ==
    \/ PoolNew
    \/ FindAllFiles
    \/ Batches
    \/ Snapshots
    \/ SpawnRefreshWorkers
    \/ DropJobSender
    \/ JoinHandle
    \/ Return

\* main.rs main
Main ==
    \/ ApplyCrate
    \/ LoadFails
    \/ Loaded
    \/ Pass

\* The worker threads: each action is the step of any one of them.
WorkerRecv == \E w \in DOMAIN worker : Recv(w)
WorkerExit == \E w \in DOMAIN worker : Exit(w)
WorkerBeginFile == \E w \in DOMAIN worker : BeginFile(w)
WorkerPopFront == \E w \in DOMAIN worker : PopFront(w)
WorkerModuleFile == \E w \in DOMAIN worker : ModuleFile(w)
WorkerTraversalDone == \E w \in DOMAIN worker : TraversalDone(w)
WorkerModuleDiags == \E w \in DOMAIN worker : ModuleDiags(w)
WorkerFileDiags == \E w \in DOMAIN worker : FileDiags(w)
WorkerEndJob == \E w \in DOMAIN worker : EndJob(w)

Workers ==
    \/ WorkerRecv
    \/ WorkerExit
    \/ WorkerBeginFile
    \/ WorkerPopFront
    \/ WorkerModuleFile
    \/ WorkerTraversalDone
    \/ WorkerModuleDiags
    \/ WorkerFileDiags
    \/ WorkerEndJob

Next == Main \/ Workers

\* The pass over the databases of the pass, every host and every budget
Spec == Init /\ [][Next]_vars

\* The pass on one worker over every file/module relation
SpecClosure == InitClosure /\ [][Next]_vars

\* The worker threads over databases where no file declares a module: the
\* queue of the traversal is empty from the start, so that PopFront,
\* ModuleFile and ModuleDiags are never enabled.
FlatWorkers ==
    \/ WorkerRecv
    \/ WorkerExit
    \/ WorkerBeginFile
    \/ WorkerTraversalDone
    \/ WorkerFileDiags
    \/ WorkerEndJob

\* The pool under the pass, for every budget, with panicking jobs
SpecPool == InitPool /\ [][Pass \/ FlatWorkers]_vars

\* The same with the threads scheduled fairly
FairSpecPool == SpecPool /\ WF_vars(Pass) /\ WF_vars(FlatWorkers)

\* The end-to-end scenario: the project loads (scarb metadata succeeds)
\* and the pass runs
SpecEndToEnd == InitEndToEnd /\ [][ApplyCrate \/ Loaded \/ Pass \/ FlatWorkers]_vars

\* The same with the threads scheduled fairly
FairSpecEndToEnd ==
    SpecEndToEnd /\ WF_vars(ApplyCrate \/ Loaded \/ Pass) /\ WF_vars(FlatWorkers)

\* load_scarb_project on every metadata of the load runs
SpecLoad == InitLoad /\ [][ExtractCrates \/ ApplyCrate \/ Loaded]_vars

\* The pass on one worker over the databases of the availability runs
SpecUnavailable == InitUnavailable /\ [][Next]_vars

\* Discovery on every database of the discovery runs
SpecDiscovery == InitDiscovery /\ [][FindAllFiles]_vars

\* Discovery run twice on every database of the discovery runs
SpecRediscovery == InitDiscovery /\ [][FindAllFiles \/ FindAllFilesAgain]_vars

\* batches applied to every discovered Vec
SpecBatches == InitBatches /\ [][Batches]_vars

\* batches applied to every Vec of the partition runs
SpecPartition == InitPartition /\ [][Batches]_vars

\* The same with the threads scheduled fairly: the main thread and the
\* worker are OS threads, each runs whenever it can.
FairSpecClosure == SpecClosure /\ WF_vars(Main) /\ WF_vars(Workers)

\* ------------------------------------------------------- reading the logs
\* The entries of all logs, <<worker, index>>
Entries == UNION {{<<w, i>> : i \in DOMAIN log[w]} : w \in DOMAIN log}
At(e) == log[e[1]][e[2]]

\* The entries of one kind about one root file
Of(kind, root) == {e \in Entries : At(e).kind = kind /\ At(e).root = root}

\* calculate_diags_for_file(root) started / returned
Started(root) == {e \in Of("file_modules", root) : At(e).arg = root}
Returned(root) == Of("done", root)

\* The workers that received job i
Receivers(i) == {e[1] : e \in {x \in Entries : At(x).kind = "recv" /\ At(x).job = i}}
Received(i) == {e \in Entries : At(e).kind = "recv" /\ At(e).job = i}
Ended(i) == {e \in Entries : At(e).kind = "job_end" /\ At(e).job = i}

Discovered == find_all_files_from_all_crates(db)

\* ----------------------------------------------------------------- claims

\* C1: when the pass returns, every discovered on-disk root file has been
\* processed exactly once, by one worker: one start of
\* calculate_diags_for_file and one return, after either the diagnostics of
\* the root itself or the one error line of a skip; no other file is a root.
C1_EveryRootProcessedOnce ==
    pc = "done" =>
        \A f \in db.files :
            IF f \in Discovered
            THEN /\ Cardinality(Started(f)) = 1
                 /\ Cardinality(Returned(f)) = 1
                 /\ Cardinality(Of("error", f)) +
                        Cardinality({e \in Of("syntax", f) : At(e).arg = f}) = 1
            ELSE Started(f) = {} /\ Returned(f) = {}

C1_Witness ==
    /\ pc = "done"
    /\ Len(files) = 3
    /\ parallelism = 2
    /\ \A w \in DOMAIN log : \E i \in DOMAIN log[w] : log[w][i].kind = "done"

\* C2: once the drop of the pool has returned, every worker thread has
\* exited, and from then on nothing is written and no worker moves.
C2_TeardownSynchronous ==
    /\ [](pc = "done" => \A w \in DOMAIN worker : worker[w].pc = "exited")
    /\ [][pc = "done" => log' = log /\ worker' = worker]_vars

C2_Witness ==
    /\ pc = "done"
    /\ parallelism = 2
    /\ \A w \in DOMAIN log : \E i \in DOMAIN log[w] : log[w][i].kind \in Writes

\* C3: the sender is dropped before any worker is joined, a worker has left
\* its loop only if the channel is closed and empty, and when every handle
\* is joined each job that was sent has run to its end, once.
C3_NoJobDropped ==
    /\ joined > 0 => ~job_sender
    /\ \A w \in DOMAIN worker :
            worker[w].pc = "exited" => ~job_sender /\ channel = <<>>
    /\ (pc \in {"join", "done"} /\ joined = parallelism) =>
            \A i \in 1..spawned : Cardinality(Ended(i)) = 1

C3_Witness ==
    /\ pc = "join"
    /\ joined = 2
    /\ spawned = 2
    /\ Len(files) = 3
    /\ Cardinality(Ended(1)) = 1 /\ Cardinality(Ended(2)) = 1

\* C4: batches(files, N) has exactly N batches, every discovered file is at
\* exactly one position of exactly one batch, no batch holds anything else,
\* and with fewer files than workers the batches left over are empty.
Positions == {<<b, i>> \in (DOMAIN files_batches) \X (1..Len(files)) :
                    i \in DOMAIN files_batches[b]}

C4_BatchesPartition ==
    pc \notin {"load", "failed", "new", "find_all_files", "batches", "panic"} =>
        /\ Len(files_batches) = parallelism
        /\ \A f \in Discovered :
                Cardinality({p \in Positions : files_batches[p[1]][p[2]] = f}) = 1
        /\ \A p \in Positions : files_batches[p[1]][p[2]] \in Discovered
        /\ Len(files) < parallelism =>
                Cardinality({b \in DOMAIN files_batches : files_batches[b] = <<>>})
                    = parallelism - Len(files)

C4_Witness ==
    /\ pc = "snapshots"
    /\ Len(files) = 3
    /\ Len(files_batches) = 2
    /\ Len(files_batches[1]) = 2
    /\ Len(files_batches[2]) = 1

\* The least fixpoint of the file/module relation from a root file, computed
\* on sets: the files grow by the files of the modules, the modules by the
\* modules of the files, until nothing is added.  A failed query adds nothing.
RECURSIVE LeastFixpoint(_, _, _)
LeastFixpoint(d, F, M) ==
    LET F2 == F \cup UNION {d.module_files[m].val : m \in M}
        M2 == M \cup UNION {d.file_modules[f].val : f \in F2}
    IN IF F2 = F /\ M2 = M THEN [files |-> F, modules |-> M]
                           ELSE LeastFixpoint(d, F2, M2)

Reachable(d, root) == LeastFixpoint(d, {root}, {})

\* No file_modules query of a reachable file and no module_files query of a
\* reachable module fails.
NoQueryFails(d, root) ==
    /\ \A f \in Reachable(d, root).files : d.file_modules[f].ok
    /\ \A m \in Reachable(d, root).modules : d.module_files[m].ok

\* C5: when no query fails the traversal returns Some with exactly the least
\* fixpoint from the root, files and modules; and it returns None (the error
\* line) only when a query of a reachable file or module fails.
C5_ClosureIsLeastFixpoint ==
    \A w \in DOMAIN worker :
        /\ worker[w].pc \in {"modules_diags", "files_diags"} =>
                /\ NoQueryFails(db, worker[w].root)
                /\ worker[w].files = Reachable(db, worker[w].root).files
                /\ worker[w].modules = Reachable(db, worker[w].root).modules
        /\ \A i \in DOMAIN log[w] :
                log[w][i].kind = "error" => ~NoQueryFails(db, log[w][i].root)

\* F = 1 declares M1 = 1 and M2 = 2, module_files(M1) = {F}, module_files(M2) = {G = 2}
C5_Witness ==
    /\ db.file_modules[1] = Ok({1, 2})
    /\ db.module_files[1] = Ok({1})
    /\ db.module_files[2] = Ok({2})
    /\ \E w \in DOMAIN worker :
            /\ worker[w].pc = "modules_diags"
            /\ worker[w].root = 1
            /\ worker[w].files = {1, 2}
            /\ worker[w].modules = {1, 2}

\* C6: within the traversal of one root no module_files query (one per
\* module popped) and no file_modules query is made twice for the same
\* argument, and under fair scheduling a traversal that has started ends.
C6_NoRepeatedQuery ==
    \A w \in DOMAIN log : \A i, j \in DOMAIN log[w] :
        (/\ i < j
         /\ log[w][i].kind \in {"file_modules", "module_files"}
         /\ log[w][i].kind = log[w][j].kind
         /\ log[w][i].job = log[w][j].job
         /\ log[w][i].root = log[w][j].root) => log[w][i].arg /= log[w][j].arg

Traversing == \E w \in DOMAIN worker : worker[w].pc \in {"queue", "module_files"}

C6_TraversalTerminates ==
    /\ []C6_NoRepeatedQuery
    /\ Traversing ~> ~Traversing

\* a relation with cycles back to the root and to files already seen
C6_Witness ==
    /\ db.file_modules[1] = Ok({1})
    /\ db.module_files[1] = Ok({1, 2})
    /\ db.file_modules[2] = Ok({1, 2})
    /\ db.module_files[2] = Ok({1, 2, 3})
    /\ db.file_modules[3] = Ok({2})
    /\ \E w \in DOMAIN worker :
            worker[w].pc = "files_diags" /\ worker[w].files = {1, 2, 3}

\* The traversal queries about a root whose result in the database is Err
FailedQueries(root) ==
    {e \in Entries :
        /\ At(e).root = root
        /\ \/ At(e).kind = "file_modules" /\ ~db.file_modules[At(e).arg].ok
           \/ At(e).kind = "module_files" /\ ~db.module_files[At(e).arg].ok}

HasEntry(diags) == \E i \in DOMAIN diags : diags[i] /= ""

\* Nothing in the closure of the root has a diagnostic to print
ZeroDiagnostics(root) ==
    /\ \A m \in Reachable(db, root).modules :
            ~HasEntry(db.semantic[m].val) /\ ~HasEntry(db.lowering[m].val)
    /\ \A f \in Reachable(db, root).files : ~HasEntry(db.syntax[f])

\* C7: a root with a failed traversal query has exactly one such query, the
\* error line right after it and then the return, exactly one error line,
\* and no diagnostics query and no printed entry; a root without one has
\* no error line, and when its closure has no diagnostics it has written
\* nothing when it returns.
C7_SkipIsOneErrorLine ==
    \A root \in db.files :
        IF FailedQueries(root) /= {}
        THEN /\ Cardinality(FailedQueries(root)) = 1
             /\ \A e \in FailedQueries(root) :
                    /\ Len(log[e[1]]) >= e[2] + 2
                    /\ log[e[1]][e[2] + 1].kind = "error"
                    /\ log[e[1]][e[2] + 2].kind = "done"
             /\ Cardinality(Of("error", root)) = 1
             /\ \A kind \in {"semantic", "lowering", "syntax", "print"} :
                    Of(kind, root) = {}
        ELSE /\ Of("error", root) = {}
             /\ (Returned(root) /= {} /\ ZeroDiagnostics(root)) =>
                    \A kind \in Writes : Of(kind, root) = {}

\* the failure is in the middle of the traversal, after files and modules
\* with diagnostics have been collected
C7_Witness ==
    /\ pc = "done"
    /\ db.file_modules[1] = Ok({2})
    /\ db.module_files[2] = Ok({2, 3})
    /\ db.file_modules[2] = Ok({1})
    /\ ~db.file_modules[3].ok
    /\ Cardinality(Of("error", 1)) = 1

C7_WitnessSilent ==
    /\ pc = "done"
    /\ db.file_modules[1] = Ok({1})
    /\ db.module_files[1] = Ok({1, 3})
    /\ Returned(1) /= {}
    /\ Of("error", 1) = {}
    /\ Of("print", 1) = {}

\* The entries one query's result makes print_diags write
NonEmpty(diags) == Cardinality({i \in DOMAIN diags : diags[i] /= ""})

PrintedFor(root, query, arg) ==
    {e \in Of("print", root) : At(e).query = query /\ At(e).arg = arg}

\* Every diagnostic of the closure of the root has been written
DiagnosticsEmitted(root) ==
    /\ \A m \in Reachable(db, root).modules :
            /\ Cardinality(PrintedFor(root, "semantic", m)) = NonEmpty(db.semantic[m].val)
            /\ Cardinality(PrintedFor(root, "lowering", m)) = NonEmpty(db.lowering[m].val)
    /\ \A f \in Reachable(db, root).files :
            Cardinality(PrintedFor(root, "syntax", f)) = NonEmpty(db.syntax[f])

\* The root files job i was done with, in the order of its worker's log
RootsDone(w, i) ==
    LET done == SelectSeq(log[w], LAMBDA e : e.kind = "done" /\ e.job = i)
    IN [k \in DOMAIN done |-> done[k].root]

\* C8: when the pass returns, every job has gone through its whole batch in
\* order, whatever failed in it; every root without a failing query has
\* returned with all the diagnostics of its closure written and no error
\* line; every root with one has one error line and was started once.
C8_FaultIsolation ==
    pc = "done" =>
        /\ \A i \in DOMAIN files_batches : \A w \in Receivers(i) :
                RootsDone(w, i) = files_batches[i]
        /\ \A f \in Discovered :
                IF NoQueryFails(db, f)
                THEN /\ Cardinality(Returned(f)) = 1
                     /\ Of("error", f) = {}
                     /\ DiagnosticsEmitted(f)
                ELSE /\ Cardinality(Of("error", f)) = 1
                     /\ Cardinality(Started(f)) = 1

\* one batch R1, R2, R3 whose R2 fails
C8_Witness ==
    /\ pc = "done"
    /\ files = <<1, 2, 3>>
    /\ files_batches = <<(<<1, 2, 3>>)>>
    /\ Of("error", 1) = {} /\ Of("print", 1) /= {}
    /\ Cardinality(Of("error", 2)) = 1
    /\ Of("error", 3) = {} /\ Of("print", 3) /= {}

Receipts(w) == {i \in DOMAIN log[w] : log[w][i].kind = "recv"}

\* C9 as claimed: in every run each worker thread executes exactly one job.
C9_OneJobPerWorker ==
    pc = "done" => \A w \in DOMAIN log : Cardinality(Receipts(w)) = 1

\* C9 as amended: parallelism() jobs are sent, job i with batch i and
\* snapshot i; no job is ever received twice, what a job queries and
\* processes is its own snapshot and its own batch, and when the pass
\* returns every job has been received once.  How many jobs one worker
\* executes is not fixed.
C9_EachJobOnOneWorker ==
    /\ \A e \in Entries :
            /\ At(e).job \in 1..spawned
            /\ At(e).snapshot = db_snapshots[At(e).job]
            /\ At(e).root /= 0 => At(e).root \in Range(files_batches[At(e).job])
    /\ \A i \in 1..spawned : Cardinality(Received(i)) <= 1
    /\ pc = "done" =>
            /\ spawned = parallelism
            /\ \A i \in 1..parallelism : Cardinality(Received(i)) = 1

\* one worker has executed both jobs, the other none
C9_Witness ==
    /\ pc = "done"
    /\ parallelism = 2
    /\ Len(files) = 3
    /\ Cardinality(Receipts(1)) = 2
    /\ Receipts(2) = {}

\* The threads that queried snapshot s
Users(s) == {e[1] : e \in {x \in Entries : At(x).kind \in Queries /\ At(x).snapshot = s}}

\* Where snapshot s is: in db_snapshots of the main thread until its pair is
\* sent, in a job of the channel, in the job a worker executes
Holders(s) ==
    {<<"main", i>> : i \in {k \in DOMAIN db_snapshots : k > spawned /\ db_snapshots[k] = s}}
    \cup {<<"channel", i>> : i \in {k \in DOMAIN channel : channel[k].snapshot = s}}
    \cup {<<"worker", w>> : w \in {k \in DOMAIN worker : worker[k].job.snapshot = s}}

\* C10: every snapshot is in one place at a time, was moved into one job,
\* and is queried by one thread only, the worker that received that job and
\* only while it holds it.
C10_SnapshotNotShared ==
    /\ \A i, j \in DOMAIN db_snapshots : i /= j => db_snapshots[i] /= db_snapshots[j]
    /\ \A s \in Range(db_snapshots) :
            /\ Cardinality(Holders(s)) <= 1
            /\ Cardinality(Users(s)) <= 1
            /\ \A w \in Users(s) :
                    \E i \in Receipts(w) : log[w][i].snapshot = s
    /\ \A w \in DOMAIN log :
            (log[w] /= <<>> /\ log[w][Len(log[w])].kind \in Queries) =>
                log[w][Len(log[w])].snapshot = worker[w].job.snapshot

\* the two snapshots were used by the two workers, crosswise
C10_Witness ==
    /\ pc = "done"
    /\ Len(db_snapshots) = 2
    /\ Users(1) = {2}
    /\ Users(2) = {1}

\* C11: the database changes only while load_scarb_project runs, when no
\* worker thread exists yet (the main thread is the only thread); once the
\* load is over every crate has been applied, and from the construction of
\* the pool on no step of any thread changes the database.
C11_SingleWriterThenReaders ==
    /\ [](pc /= "load" => crates_to_load = <<>>)
    /\ [][db' /= db => /\ pc = "load" /\ pc' = "load"
                       /\ worker = <<>> /\ worker' = <<>>
                       /\ log' = log]_vars

\* both crates were applied, then two workers queried their snapshots
C11_Witness ==
    /\ pc = "done"
    /\ db.crates = {1, 2}
    /\ parallelism = 2
    /\ \A w \in DOMAIN log : \E i \in DOMAIN log[w] : log[w][i].kind \in Queries

\* The worker threads that have not finished
Live == {w \in DOMAIN worker : worker[w].pc \notin {"exited", "panicked"}}

\* C12: once Pool::new has run there are exactly min(B, H) worker threads,
\* min(B, 4) when the host's parallelism is unknown; no step after
\* Pool::new adds or removes a thread, so the live workers are never more.
C12_WorkersSpawned ==
    /\ [](pc /= "new" =>
            LET n == IF host = 0 THEN Min(max_threads, 4) ELSE Min(max_threads, host)
            IN Len(worker) = n /\ Cardinality(Live) <= n)
    /\ [][pc /= "new" => DOMAIN worker' = DOMAIN worker]_vars

\* budget 5 on a host of unknown parallelism: the default 4 decides
C12_Witness ==
    /\ host = 0
    /\ max_threads = 5
    /\ Len(worker) = 4
    /\ Cardinality(Live) = 4
    /\ spawned = 4

\* C13 as claimed: whatever the budget, Pool::new succeeds and parallelism()
\* is the number of worker threads spawned, at least 1.
C13_AnyBudgetConstructs ==
    pc /= "new" =>
        /\ pc /= "panic"
        /\ parallelism = Len(worker)
        /\ parallelism >= 1

\* C13 as amended: with a budget of at least 1 Pool::new succeeds and
\* parallelism() is the number of worker threads spawned, at least 1; with
\* the budget 0 no thread is spawned and Pool::new panics.
C13_NonZeroBudgetConstructs ==
    pc /= "new" =>
        IF max_threads >= 1
        THEN /\ pc /= "panic"
             /\ parallelism = Len(worker)
             /\ parallelism >= 1
        ELSE /\ pc = "panic"
             /\ worker = <<>>
             /\ ~job_sender

C13_Witness ==
    /\ max_threads = 3
    /\ host = 0
    /\ pc = "find_all_files"
    /\ parallelism = 3
    /\ Len(worker) = 3

\* C14: while the sender is alive every spawn of the pass succeeds, also
\* after jobs have panicked: where spawn_refresh_workers has a pair left to
\* send a worker thread is still alive to receive, the step appends that
\* job to the channel, and no step of spawn_refresh_workers panics; nothing
\* is sent once the sender is dropped.
C14_SpawnSucceeds ==
    /\ []((pc = "spawn_refresh_workers" /\ spawned < Len(files_batches)) =>
                job_sender /\ Connected)
    /\ [][(pc = "spawn_refresh_workers" /\ (spawned' /= spawned \/ pc' /= pc)) =>
                /\ pc' /= "panic"
                /\ spawned < Len(files_batches) =>
                        /\ spawned' = spawned + 1
                        /\ Len(channel') = Len(channel) + 1
                        /\ channel'[Len(channel')].id = spawned']_vars
    /\ [][Len(channel') > Len(channel) => job_sender /\ pc = "spawn_refresh_workers"]_vars

\* the first job has panicked in its worker thread, and the second pair is
\* about to be sent
C14_Witness ==
    /\ pc = "spawn_refresh_workers"
    /\ spawned = 1
    /\ spawned < Len(files_batches)
    /\ \E w \in DOMAIN worker : worker[w].pc = "panicked"

\* The worker threads that unwound from a panicking job
PanickedWorkers == {w \in DOMAIN worker : worker[w].pc = "panicked"}

\* The jobs whose batch has a file that makes its query panic
PanickingJobs == {i \in DOMAIN files_batches : Range(files_batches[i]) \cap db.panics /= {}}

\* The queue and the jobs after a panic: a panic is the last thing its thread
\* does, no job is received twice, and once every handle is joined the
\* channel is empty, every thread has finished, every job was received by
\* one worker and every job that does not panic ran to its end.
QueueSurvivesPanics ==
    /\ \A w \in DOMAIN log : \A i \in DOMAIN log[w] :
            log[w][i].kind = "panic" => i = Len(log[w]) /\ w \in PanickedWorkers
    /\ \A i \in 1..spawned : Cardinality(Received(i)) <= 1
    /\ (pc \in {"join", "done", "unwind"} /\ joined = parallelism) =>
            /\ ~job_sender
            /\ channel = <<>>
            /\ Live = {}
            /\ spawned = parallelism
            /\ \A i \in 1..spawned :
                    /\ Cardinality(Received(i)) = 1
                    /\ i \notin PanickingJobs => Cardinality(Ended(i)) = 1
    /\ pc \in {"done", "unwind"} => joined = parallelism

\* C15 as claimed: a panic in a job leaves the queue and the other jobs
\* intact, and teardown closes the queue, joins every thread and returns.
C15_TeardownReturnsAfterPanic ==
    /\ QueueSurvivesPanics
    /\ pc /= "unwind"

\* C15 as amended: a panic in a job leaves the queue and the other jobs
\* intact (the step of a panic does not touch the channel), and teardown
\* closes the queue and joins every thread; it returns when no job has
\* panicked, and otherwise ends by unwinding with the panic of the job.
C15_TeardownJoinsAfterPanic ==
    /\ []QueueSurvivesPanics
    /\ [](pc = "done" => PanickedWorkers = {})
    /\ [](pc = "unwind" => PanickedWorkers /= {})
    /\ [][PanickedWorkers' /= PanickedWorkers => channel' = channel /\ job_sender' = job_sender]_vars

\* job 1 has panicked in one thread, job 2 ran to its end in another, every
\* handle is joined
C15_Witness ==
    /\ pc = "unwind"
    /\ joined = parallelism
    /\ parallelism >= 2
    /\ \E w \in PanickedWorkers : \E e \in Received(1) : e[1] = w
    /\ \E e \in Ended(2) : e[1] \notin PanickedWorkers

\* C16: under fair scheduling, once the drop of the pool has begun the
\* channel is eventually closed and empty, every worker thread has
\* eventually left its loop and every handle is eventually joined.
C16_TeardownCompletes ==
    (pc = "drop") ~> (/\ ~job_sender
                      /\ channel = <<>>
                      /\ Live = {}
                      /\ joined = parallelism
                      /\ pc \in {"done", "unwind"})

\* the sender has just been dropped with four jobs queued and the four
\* workers idle
C16_Witness ==
    /\ pc = "join"
    /\ joined = 0
    /\ ~job_sender
    /\ Len(channel) = 4
    /\ \A w \in DOMAIN worker : worker[w].pc = "recv"

\* The lifecycle of the pool, read from its fields: no pool before Pool::new
\* has returned one; Running while the sender is alive; Draining once the
\* sender is dropped and a handle is still to be joined; Joined when every
\* handle is joined.
Lifecycle ==
    IF parallelism = 0 THEN "Unbuilt"
    ELSE IF job_sender THEN "Running"
    ELSE IF joined < parallelism THEN "Draining"
    ELSE "Joined"

Rank(state) ==
    CASE state = "Unbuilt" -> 0
      [] state = "Running" -> 1
      [] state = "Draining" -> 2
      [] state = "Joined" -> 3

\* C17: the pool is Running from its construction; every change of its
\* lifecycle is one step forward (Running to Draining, by the step that
\* drops the sender, Draining to Joined), so that it never goes back and
\* never leaves Joined; a job enters the channel only while it is Running,
\* no handle is joined while it is Running, and in Joined no worker thread
\* is left.
C17_LifecycleForward ==
    /\ [][Lifecycle' /= Lifecycle => Rank(Lifecycle') = Rank(Lifecycle) + 1]_vars
    /\ [][(Lifecycle = "Running" /\ Lifecycle' = "Draining") <=> (job_sender /\ ~job_sender')]_vars
    /\ [][Len(channel') > Len(channel) => Lifecycle = "Running"]_vars
    /\ [](Lifecycle = "Running" => joined = 0)
    /\ [](Lifecycle = "Joined" => Live = {})
    /\ [](pc \in {"done", "unwind"} => Lifecycle = "Joined")

\* a pool of four threads that went through the three states and is Joined
C17_Witness ==
    /\ Lifecycle = "Joined"
    /\ parallelism = 4
    /\ pc = "done"
    /\ \A i \in 1..4 : Cardinality(Ended(i)) = 1

\* The modules of the loaded crates whose main file resolves to f
ModulesOf(f) ==
    {m \in UNION {db.crate_modules[c] : c \in db.crates} : db.module_main_file[m] = Ok(f)}

\* C18: the Vec discovery returns has no file twice, and its files are
\* exactly the on-disk files that are the resolved main file of a module of
\* a loaded crate: generated files, and modules whose resolution fails,
\* give nothing.
C18_DiscoveryExact ==
    pc = "batches" =>
        /\ \A i, j \in DOMAIN files : i /= j => files[i] /= files[j]
        /\ \A f \in db.files :
                f \in Range(files) <=> (f \in db.on_disk /\ ModulesOf(f) /= {})
        /\ Range(files) \subseteq db.files

\* file 1 is on disk and the main file of modules 1 and 3, file 2 is the
\* generated main file of module 2, module 4 has no main file
C18_Witness ==
    /\ pc = "batches"
    /\ db.crates = {1, 2}
    /\ db.on_disk = {1, 3}
    /\ db.module_main_file[1] = Ok(1)
    /\ db.module_main_file[3] = Ok(1)
    /\ db.module_main_file[2] = Ok(2)
    /\ ~db.module_main_file[4].ok
    /\ files = <<1>>

\* The queries of one kind about one argument made for a root
QueriesOf(kind, root, arg) == {e \in Of(kind, root) : At(e).arg = arg}

\* The entry of the same log that follows entry e, printed entries skipped
\* (0 when there is none)
RECURSIVE NextQuery(_, _)
NextQuery(w, i) ==
    IF i >= Len(log[w]) THEN 0
    ELSE IF log[w][i + 1].kind /= "print" THEN i + 1
    ELSE NextQuery(w, i + 1)

\* C19: for a root whose traversal succeeded, when it has returned every
\* module of its closure has had one semantic query, followed by its one
\* lowering query, every file of its closure, the root included, one syntax
\* query, and at no time is a module or a file outside the closure queried
\* for diagnostics, or anything queried twice.
C19_DiagnosticsForExactlyTheClosure ==
    \A root \in {At(e).root : e \in Entries} \ {0} :
        LET closure == Reachable(db, root)
            succeeded == Returned(root) /= {} /\ Of("error", root) = {}
        IN /\ \A m \in db.modules :
                /\ Cardinality(QueriesOf("semantic", root, m)) <= 1
                /\ Cardinality(QueriesOf("lowering", root, m)) <= 1
                /\ m \notin closure.modules =>
                        QueriesOf("semantic", root, m) = {} /\ QueriesOf("lowering", root, m) = {}
                /\ (succeeded /\ m \in closure.modules) =>
                        /\ Cardinality(QueriesOf("semantic", root, m)) = 1
                        /\ Cardinality(QueriesOf("lowering", root, m)) = 1
                /\ \A e \in QueriesOf("semantic", root, m) :
                        LET n == NextQuery(e[1], e[2])
                        IN /\ n /= 0
                           /\ log[e[1]][n].kind = "lowering"
                           /\ log[e[1]][n].arg = m
                           /\ log[e[1]][n].root = root
           /\ \A f \in db.files :
                /\ Cardinality(QueriesOf("syntax", root, f)) <= 1
                /\ f \notin closure.files => QueriesOf("syntax", root, f) = {}
                /\ (succeeded /\ f \in closure.files) =>
                        Cardinality(QueriesOf("syntax", root, f)) = 1
           /\ succeeded => root \in closure.files

\* root 1 declares module 1, whose file 2 declares module 2, whose file is 3
C19_Witness ==
    /\ pc = "done"
    /\ db.file_modules[1] = Ok({1})
    /\ db.module_files[1] = Ok({2})
    /\ db.file_modules[2] = Ok({2})
    /\ db.module_files[2] = Ok({3})
    /\ db.file_modules[3] = Ok({})
    /\ Returned(1) /= {}
    /\ \A m \in {1, 2} : Cardinality(QueriesOf("semantic", 1, m)) = 1
    /\ \A f \in {1, 2, 3} : Cardinality(QueriesOf("syntax", 1, f)) = 1

\* The diagnostics queries made whose result in the database is unavailable
Unavailable ==
    {e \in Entries :
        \/ At(e).kind = "semantic" /\ ~db.semantic[At(e).arg].ok
        \/ At(e).kind = "lowering" /\ ~db.lowering[At(e).arg].ok}

\* C20: an unavailable semantic or lowering result writes nothing, neither
\* an error line nor an entry, and the processing goes on: after an
\* unavailable semantic result comes the lowering query of the same module,
\* after an unavailable lowering result the next module or the first file
\* (at the latest when the root returns);
\* when the root has returned every module of its closure has had its two
\* queries and every file its syntax query, and what is available has been
\* written.
C20_UnavailableIsEmpty ==
    /\ \A e \in Unavailable :
            LET q == At(e)
                n == NextQuery(e[1], e[2])
            IN /\ PrintedFor(q.root, q.kind, q.arg) = {}
               /\ Of("error", q.root) = {}
               /\ e[2] < Len(log[e[1]]) => log[e[1]][e[2] + 1].kind /= "print"
               /\ IF n = 0
                  THEN q.kind = "lowering" /\ Returned(q.root) = {}
                  ELSE /\ log[e[1]][n].root = q.root
                       /\ IF q.kind = "semantic"
                          THEN log[e[1]][n].kind = "lowering" /\ log[e[1]][n].arg = q.arg
                          ELSE \/ log[e[1]][n].kind = "semantic" /\ log[e[1]][n].arg /= q.arg
                               \/ log[e[1]][n].kind = "syntax"
    /\ \A root \in Discovered :
            Returned(root) /= {} =>
                /\ \A m \in Reachable(db, root).modules :
                        /\ Cardinality(QueriesOf("semantic", root, m)) = 1
                        /\ Cardinality(QueriesOf("lowering", root, m)) = 1
                        /\ Cardinality(PrintedFor(root, "semantic", m))
                                = IF db.semantic[m].ok THEN NonEmpty(db.semantic[m].val) ELSE 0
                        /\ Cardinality(PrintedFor(root, "lowering", m))
                                = IF db.lowering[m].ok THEN NonEmpty(db.lowering[m].val) ELSE 0
                /\ \A f \in Reachable(db, root).files :
                        /\ Cardinality(QueriesOf("syntax", root, f)) = 1
                        /\ Cardinality(PrintedFor(root, "syntax", f)) = NonEmpty(db.syntax[f])

\* module 1: semantic unavailable, lowering available; module 2: semantic
\* available, lowering unavailable
C20_Witness ==
    /\ pc = "done"
    /\ ~db.semantic[1].ok /\ db.lowering[1].ok
    /\ db.semantic[2].ok /\ ~db.lowering[2].ok
    /\ Returned(1) /= {}
    /\ Cardinality(Unavailable) = 2
    /\ PrintedFor(1, "lowering", 1) /= {}
    /\ PrintedFor(1, "semantic", 2) /= {}

\* The position of a root file in the batch of its job
PositionIn(batch, root) == CHOOSE p \in DOMAIN batch : batch[p] = root

\* C21: in the log of a worker, within one job, the entries of two root
\* files are never interleaved and follow the order of the batch: between an
\* entry about root A and a later entry about another root B,
\* calculate_diags_for_file(A) has returned and A is before B in the batch;
\* the return of a root is its last entry; and a worker receives its next
\* job only after the job before has returned.
C21_BatchSequential ==
    \A w \in DOMAIN log : \A i, j \in DOMAIN log[w] :
        i < j =>
            LET a == log[w][i]
                b == log[w][j]
            IN /\ (a.job = b.job /\ a.root /= 0 /\ b.root /= 0 /\ a.root /= b.root) =>
                    /\ PositionIn(files_batches[a.job], a.root)
                            < PositionIn(files_batches[a.job], b.root)
                    /\ \E k \in i..(j - 1) :
                            log[w][k].kind = "done" /\ log[w][k].root = a.root
               /\ (a.job = b.job /\ a.root /= 0 /\ a.root = b.root) => a.kind /= "done"
               /\ a.job /= b.job =>
                    \E k \in i..(j - 1) : log[w][k].kind = "job_end" /\ log[w][k].job = a.job

\* the worker of the batch 1, 2, 3 is printing the diagnostics of root 2
\* after those of root 1
C21_Witness ==
    /\ files_batches = <<(<<1, 2, 3>>)>>
    /\ worker[1].pc = "modules_diags"
    /\ worker[1].root = 2
    /\ worker[1].batch = <<3>>
    /\ Of("print", 1) /= {}
    /\ Returned(1) /= {}

\* C22: whatever the number M of files and the number N >= 1 of workers,
\* the sizes of any two batches of batches(files, N) differ by at most 1
\* (and the sizes add up to M).
RECURSIVE SumOfSizes(_)
SumOfSizes(bs) == IF bs = <<>> THEN 0 ELSE Len(Head(bs)) + SumOfSizes(Tail(bs))

C22_BatchSizesBalanced ==
    pc = "snapshots" =>
        /\ \A i, j \in DOMAIN files_batches :
                Len(files_batches[i]) - Len(files_batches[j]) <= 1
        /\ SumOfSizes(files_batches) = Len(files)

\* 4 files over 3 workers: sizes 2, 1, 1
C22_Witness ==
    /\ pc = "snapshots"
    /\ Len(files) = 4
    /\ parallelism = 3
    /\ Len(files_batches[1]) = 2
    /\ Len(files_batches[2]) = 1
    /\ Len(files_batches[3]) = 1

\* The positions of the input, counted from 0, that are congruent to i
\* modulo n, in increasing order
RECURSIVE Congruent(_, _, _)
Congruent(len, n, p) == IF p >= len THEN <<>> ELSE <<p>> \o Congruent(len, n, p + n)

\* C23: batch i, counted from 0, of batches(files, N) is the elements of
\* files at the positions p, counted from 0, with p mod N = i, in
\* increasing order of p.
C23_RoundRobin ==
    pc = "snapshots" =>
        /\ Len(files_batches) = parallelism
        /\ \A i \in 0..(parallelism - 1) :
                LET positions == Congruent(Len(files), parallelism, i)
                IN /\ \A k \in DOMAIN positions : positions[k] % parallelism = i
                   /\ \A p \in 0..(Len(files) - 1) :
                        p % parallelism = i => p \in Range(positions)
                   /\ files_batches[i + 1] =
                        [k \in DOMAIN positions |-> files[positions[k] + 1]]

\* 4 files in an order that is not that of their ids, over 2 workers
C23_Witness ==
    /\ pc = "snapshots"
    /\ files = <<3, 1, 4, 2>>
    /\ parallelism = 2
    /\ files_batches = <<(<<3, 4>>), (<<1, 2>>)>>

\* C24: the pass creates parallelism() snapshots, one per batch, in one step
\* of the main thread taken before anything is sent (no job in the channel,
\* no worker has received anything); from then on the Vec of snapshots is as
\* long as the Vec of batches, so the assert_eq! of spawn_refresh_workers
\* never fails; and when the pass returns no snapshot is left anywhere:
\* each one went into a job that ran and was dropped with it.
C24_SnapshotsPerPass ==
    /\ [](pc \in {"spawn_refresh_workers", "drop", "join", "done"} =>
            /\ Len(db_snapshots) = parallelism
            /\ Len(db_snapshots) = Len(files_batches))
    /\ [](pc /= "panic")
    /\ []((spawned > 0 \/ channel /= <<>>) => Len(db_snapshots) = parallelism)
    /\ [][db_snapshots' /= db_snapshots =>
            /\ pc = "snapshots" /\ pc' = "spawn_refresh_workers"
            /\ db_snapshots = <<>>
            /\ channel = <<>> /\ spawned = 0
            /\ worker' = worker
            /\ \A w \in DOMAIN log : log[w] = <<>>]_vars
    /\ [](pc = "done" =>
            /\ spawned = Len(db_snapshots)
            /\ \A s \in Range(db_snapshots) : Holders(s) = {})

\* two snapshots, each used by the worker of the same index, and the pass
\* has returned
C24_Witness ==
    /\ pc = "done"
    /\ Len(db_snapshots) = 2
    /\ Len(files) = 2
    /\ Users(1) = {1}
    /\ Users(2) = {2}
    /\ \A s \in Range(db_snapshots) : Holders(s) = {}

C26_EndToEnd ==
    /\ [](pc \notin {"load", "new"} => Len(worker) = 2 /\ parallelism = 2)
    /\ [](pc \notin {"load", "new", "find_all_files"} => Range(files) = {1, 2} /\ Len(files) = 2)
    /\ [](pc \notin {"load", "new", "find_all_files", "batches"} =>
            /\ Len(files_batches) = 2
            /\ \A b \in DOMAIN files_batches : Len(files_batches[b]) = 1)
    /\ [](\A e \in Entries : At(e).kind \notin Writes /\ At(e).kind /= "panic")
    /\ [](pc \notin {"failed", "panic", "unwind"})
    /\ <>[](/\ pc = "done"
            /\ \A w \in DOMAIN worker : worker[w].pc = "exited"
            /\ \A f \in {1, 2} : Cardinality(Returned(f)) = 1)

\* the pass has returned; each of the two workers processed one root
C26_Witness ==
    /\ pc = "done"
    /\ max_threads = 4
    /\ host = 2
    /\ Len(worker) = 2
    /\ files_batches = <<(<<2>>), (<<1>>)>>
    /\ \A w \in DOMAIN log : Cardinality({i \in DOMAIN log[w] : log[w][i].kind = "done"}) = 1

\* The jobs the worker threads are executing
Executing(i) == {w \in DOMAIN worker : worker[w].job.id = i}

\* The places of the channel that hold job i
Queued(i) == {k \in DOMAIN channel : channel[k].id = i}

\* C27: whatever the interleaving, a job that was sent is in the channel
\* once, or was received once, never both; no job is received by two
\* workers or twice by one, no two workers execute the same job, no job
\* ends twice; what a worker receives is a job that was sent, with the batch
\* and the snapshot it was sent with; and the step that receives a job is
\* the step that takes it, the oldest one, out of the channel.
C27_JobReceivedOnce ==
    /\ [](\A i \in 1..spawned :
            /\ Cardinality(Queued(i)) + Cardinality(Received(i)) = 1
            /\ Cardinality(Executing(i)) <= 1
            /\ Executing(i) \subseteq Receivers(i)
            /\ Cardinality(Ended(i)) <= 1)
    /\ [](\A k \in DOMAIN channel : channel[k].id \in 1..spawned)
    /\ [](\A e \in Entries :
            /\ At(e).job \in 1..spawned
            /\ At(e).snapshot = db_snapshots[At(e).job])
    /\ [](\A w \in DOMAIN worker :
            worker[w].job.id /= 0 =>
                /\ worker[w].job.id \in 1..spawned
                /\ worker[w].job = Job(worker[w].job.id,
                                       files_batches[worker[w].job.id],
                                       db_snapshots[worker[w].job.id]))
    /\ [][\A w \in DOMAIN worker :
            (worker[w].job.id = 0 /\ worker'[w].job.id /= 0) =>
                /\ channel /= <<>>
                /\ worker'[w].job = Head(channel)
                /\ channel' = Tail(channel)
                /\ \A v \in DOMAIN worker : v /= w => worker'[v] = worker[v]]_vars

\* four jobs are being executed by four workers, none by the worker of its
\* own index
C27_Witness ==
    /\ parallelism = 4
    /\ spawned = 4
    /\ channel = <<>>
    /\ \A w \in 1..4 : worker[w].job.id \notin {0, w}
    /\ \A i \in 1..4 : Cardinality(Executing(i)) = 1

\* A worker inside the loop of file_and_subfiles_with_corresponding_modules
InTraversal(wr) == wr.pc \in {"queue", "module_files"}

\* The modules of the set that were popped and whose files have all been
\* gone through: not in the queue, and not the one being expanded
Expanded(wr) ==
    (wr.modules \ Range(wr.modules_queue))
        \ (IF wr.pc = "module_files" THEN {wr.module_id} ELSE {})

\* The modules popped so far in this traversal
Popped(w) ==
    {log[w][i].arg : i \in {k \in DOMAIN log[w] :
        /\ log[w][k].kind = "module_files"
        /\ log[w][k].job = worker[w].job.id
        /\ log[w][k].root = worker[w].root}}

NoDuplicate(q) == \A i, j \in DOMAIN q : i /= j => q[i] /= q[j]

\* C28: at every step of the traversal loop the root is in the file set;
\* the queue holds modules of the module set, each once and none that was
\* popped before; every module expanded has its files in the file set and
\* the modules those files declare in the module set; and a step of the
\* loop only adds to the two sets, pushing exactly the modules it adds to
\* the module set, each once, so that no module is pushed twice.
C28_TraversalInvariant ==
    /\ [](\A w \in DOMAIN worker :
            LET wr == worker[w]
            IN InTraversal(wr) =>
                /\ wr.root \in wr.files
                /\ Range(wr.modules_queue) \subseteq wr.modules
                /\ NoDuplicate(wr.modules_queue)
                /\ Range(wr.modules_queue) \cap Popped(w) = {}
                /\ \A m \in Expanded(wr) :
                        /\ m \in Popped(w)
                        /\ db.module_files[m].ok
                        /\ db.module_files[m].val \subseteq wr.files
                        /\ \A f \in db.module_files[m].val :
                                /\ db.file_modules[f].ok
                                /\ db.file_modules[f].val \subseteq wr.modules)
    /\ [][\A w \in DOMAIN worker :
            (/\ InTraversal(worker[w]) /\ InTraversal(worker'[w])
             /\ worker'[w] /= worker[w]) =>
                LET old == worker[w]
                    new == worker'[w]
                    kept == IF Len(new.modules_queue) >= Len(old.modules_queue)
                            THEN old.modules_queue ELSE Tail(old.modules_queue)
                    pushed == SubSeq(new.modules_queue, Len(kept) + 1, Len(new.modules_queue))
                IN /\ new.root = old.root
                   /\ old.files \subseteq new.files
                   /\ old.modules \subseteq new.modules
                   /\ SubSeq(new.modules_queue, 1, Len(kept)) = kept
                   /\ Range(pushed) = new.modules \ old.modules
                   /\ NoDuplicate(pushed)]_vars

\* module 1, declared by the root, has been expanded: its file 2 is in the
\* file set and module 2, which file 2 declares, was pushed and waits
C28_Witness ==
    \E w \in DOMAIN worker :
        /\ worker[w].pc = "queue"
        /\ worker[w].root = 1
        /\ worker[w].files = {1, 2}
        /\ worker[w].modules = {1, 2}
        /\ worker[w].modules_queue = <<2>>
        /\ Expanded(worker[w]) = {1}

\* C29: every crate extract_crates returns, for any metadata, the crates
\* merged by group id included, is named core exactly when it has no
\* discriminator, so that Crate::apply never panics.
C29_ApplyNeverPanics ==
    /\ \A i \in DOMAIN crates_to_load : OnlyCoreHasNoDiscriminator(crates_to_load[i])
    /\ pc /= "panic"
====
